---- MODULE Spec2Model ----
(***************************************************************************)
(* Model of src/discord_queue_clicker.py: the DiscordQueueClicker monitor  *)
(* loop (start_monitoring / stop), the colour detector, the text verifier  *)
(* and the click dispatch.                                                 *)
(*                                                                         *)
(* The screen, the contour finder, the OCR engine and the pointer are      *)
(* external: a frame is the list of contours cv2.findContours reports for  *)
(* it (enclosed area, bounding rectangle) together with what the OCR       *)
(* engine does on the crop around each rectangle (the text it recognises,  *)
(* or an error).  Text is a sequence of one-character strings.             *)
(***************************************************************************)
EXTENDS Integers, Sequences, FiniteSets, TLC

\* ------------------------------------------------------------------ bounds
\* Frames captured in one run of start_monitoring, and calls of
\* start_monitoring on one object.
MaxTicks == 3
MaxRuns == 2

\* -------------------------------------------------------------------- text
UpperCase == <<"A","B","C","D","E","F","G","H","I","J","K","L","M",
               "N","O","P","Q","R","S","T","U","V","W","X","Y","Z">>
LowerCase == <<"a","b","c","d","e","f","g","h","i","j","k","l","m",
               "n","o","p","q","r","s","t","u","v","w","x","y","z">>

\* Faulty variant of lower: the text is compared as recognised.
lower_missing(s) == s

\* str.lower() on one character, then on a string
lowerChar(c) ==
    IF \E i \in 1..Len(UpperCase) : UpperCase[i] = c
    THEN LowerCase[CHOOSE i \in 1..Len(UpperCase) : UpperCase[i] = c]
    ELSE c

lower(s) == [i \in 1..Len(s) |-> lowerChar(s[i])]

\* Python's `k in t` on strings: k occurs in t as a contiguous substring
contains(t, k) ==
    \E o \in 0..(Len(t) - Len(k)) : \A i \in 1..Len(k) : t[o + i] = k[i]

\* keywords of start_monitoring when the caller passes None (line 152)
DefaultKeywords ==
    << <<"j","o","i","n"," ","q","u","e","u","e">>,
       <<"q","u","e","u","e">>,
       <<"j","o","i","n">> >>

\* keywords main() passes (line 236)
MainKeywords ==
    << <<"j","o","i","n"," ","q","u","e","u","e">>,
       <<"q","u","e","u","e">>,
       <<"j","o","i","n">>,
       <<"e","n","t","e","r"," ","q","u","e","u","e">> >>

\* the `keywords` argument: absent (None) or a list
KeywordArgs ==
    { [given |-> FALSE, value |-> <<>>],
      [given |-> TRUE,  value |-> MainKeywords],
      [given |-> TRUE,  value |-> << <<"Q","u","e","u","e">> >>] }

\* ------------------------------------------------------------------ frames
TextJoin  == <<"J","o","i","n"," ","Q","u","e","u","e"," ","N","o","w">>
TextLeave == <<"l","e","a","v","e">>

Contour(a, x, y, w, h, raises, text) ==
    [area |-> a, x |-> x, y |-> y, w |-> w, h |-> h,
     raises |-> raises, text |-> text]

CJoin   == Contour(4851, 150, 75, 100, 50, FALSE, TextJoin)
CJoin2  == Contour(5000, 400, 300, 120, 40, FALSE, TextJoin)
CLeave  == Contour(3000, 300, 200, 90, 40, FALSE, TextLeave)
CErr    == Contour(3000, 10, 300, 120, 30, TRUE, <<>>)
CSmall  == Contour(500, 20, 20, 40, 20, FALSE, TextJoin)
CSquare == Contour(2500, 500, 400, 50, 50, FALSE, TextJoin)

\* screenshot.shape of every captured buffer: (rows, columns)
BufShape == <<600, 800>>

Frame(cs) == [shape |-> BufShape, contours |-> cs]

Blank == Frame(<<>>)

Frames ==
    { Blank,
      Frame(<<CJoin>>),
      Frame(<<CLeave, CJoin, CJoin2>>),
      Frame(<<CErr, CLeave>>),
      Frame(<<CSmall, CSquare>>),
      Frame(<<CJoin, CJoin2>>),
      Frame(<<CSmall, CErr, CJoin2>>) }

\* logical (pointer-space) width of the display: the capture backend
\* returns either logical pixels or twice as many physical pixels
ScreenWidths == {BufShape[2], BufShape[2] \div 2}

VARIABLES
    running,        \* self.running
    pc,             \* position of the thread inside start_monitoring
    outcome,        \* how the current call of start_monitoring ended
    run,            \* number of calls of start_monitoring so far
    use_ocr,        \* argument of the current call
    keywords,       \* local `keywords` of the current call
    ocr_available,  \* whether `import pytesseract` succeeds
    screen_width,   \* logical width of the display
    screenshot,     \* local `screenshot` (last captured frame)
    buttons,        \* local `buttons`
    idx,            \* position of `for button in buttons` (1-based)
    tick,           \* frames captured in this run
    sleeps,         \* completed time.sleep calls in this run
    vlog,           \* verifications made in the current tick, in order,
                    \* each with the region cropped for the OCR (<<>> when
                    \* the import failed before the crop)
    clicks,         \* pyautogui.click calls of this run, in order
    firstHit,       \* first tick of this run with candidates (0: none yet)
    cancelTick,     \* tick of a cancellation requested during sleep (0: none)
    raised,         \* errors raised by a tick of this run, in order
    stopAt,         \* <<position, tick>> of the stop() call that counts for
                    \* this run: the first one made during it, else the
                    \* last one made before it (<<"none", 0>>: none)
    intAt           \* position at which Ctrl+C arrived ("none": it did not)

vars == <<running, pc, outcome, run, use_ocr, keywords, ocr_available,
          screen_width, screenshot, buttons, idx, tick, sleeps, vlog,
          clicks, firstHit, cancelTick, raised, stopAt, intAt>>

\* positions inside the try block of start_monitoring (lines 159-187)
InTry == {"while", "capture", "detect", "for", "verify", "click",
          "return", "sleep"}

\* ---------------------------------------------------------- pure functions
Rect(c) == <<c.x, c.y, c.w, c.h>>

\* Faulty variant of aspect_ratio: w / h without the guard on h; the
\* division by zero raises.
aspect_ratio_unguarded(w, h) ==
    IF h # 0
    THEN [fault |-> FALSE, num |-> w, den |-> h]
    ELSE [fault |-> TRUE, num |-> 0, den |-> 1]

\* line 71: aspect_ratio = w / h if h > 0 else 0, kept as the fraction
\* num / den with den > 0; fault: the expression raised ZeroDivisionError
aspect_ratio(w, h) ==
    IF h > 0
    THEN [fault |-> FALSE, num |-> w, den |-> h]
    ELSE [fault |-> FALSE, num |-> 0, den |-> 1]

\* line 68: the size filter
area_ok(c) == 1000 < c.area /\ c.area < 100000

\* Faulty variant of accepts: the bounds are inclusive.
accepts_inclusive(c) ==
    /\ 1000 <= c.area
    /\ c.area <= 100000
    /\ LET r == aspect_ratio(c.w, c.h)
       IN  ~r.fault /\ 3 * r.den <= 2 * r.num /\ r.num <= 10 * r.den

\* lines 66-72: the size and aspect-ratio filter on one contour;
\* 1.5 < num/den < 10 is compared exactly as 3 den < 2 num and num < 10 den
accepts(c) ==
    /\ area_ok(c)
    /\ LET r == aspect_ratio(c.w, c.h)
       IN  ~r.fault /\ 3 * r.den < 2 * r.num /\ r.num < 10 * r.den

\* the aspect ratio of some contour that passed the size filter raised
division_fault(shot) ==
    \E i \in 1..Len(shot.contours) :
        area_ok(shot.contours[i])
        /\ aspect_ratio(shot.contours[i].w, shot.contours[i].h).fault

\* lines 45-75: bounding boxes of the accepted contours, in contour order
detect_blue_button(shot) ==
    LET kept == SelectSeq(shot.contours, accepts)
    IN  [i \in 1..Len(kept) |-> Rect(kept[i])]

\* line 94: margin = 20
margin == 20

Max(a, b) == IF a >= b THEN a ELSE b
Min(a, b) == IF a <= b THEN a ELSE b

\* Faulty variant of crop_region: the margin is applied without clamping.
crop_region_unclamped(shape, button_region) ==
    LET x == button_region[1]
        y == button_region[2]
        w == button_region[3]
        h == button_region[4]
    IN  <<x - margin, y - margin, x + w + margin, y + h + margin>>

\* lines 92-98: <<x1, y1, x2, y2>>, the region handed to the OCR;
\* shape is (rows, columns)
crop_region(shape, button_region) ==
    LET x == button_region[1]
        y == button_region[2]
        w == button_region[3]
        h == button_region[4]
    IN  << Max(0, x - margin), Max(0, y - margin),
           Min(shape[2], x + w + margin), Min(shape[1], y + h + margin) >>

\* what pytesseract.image_to_string does on the crop around a region
ocr_of(shot, button_region) ==
    LET c == CHOOSE c \in {shot.contours[i] : i \in 1..Len(shot.contours)} :
                 Rect(c) = button_region
    IN  [raises |-> c.raises, text |-> c.text]

\* Faulty variant of check_for_text_near_button: a candidate whose OCR
\* failed is taken for a match.
check_for_text_errors_accept(shot, button_region, kws) ==
    IF ~ocr_available
    THEN [res |-> TRUE, why |-> "no_ocr"]
    ELSE IF ocr_of(shot, button_region).raises
    THEN [res |-> TRUE, why |-> "ocr_error"]
    ELSE IF \E k \in 1..Len(kws) :
              contains(lower(ocr_of(shot, button_region).text), lower(kws[k]))
    THEN [res |-> TRUE, why |-> "match"]
    ELSE [res |-> FALSE, why |-> "nomatch"]

\* lines 89-119: the verdict and the branch that produced it
check_for_text_near_button(shot, button_region, kws) ==
    IF ~ocr_available
    THEN [res |-> FALSE, why |-> "no_ocr"]            \* except ImportError
    ELSE IF ocr_of(shot, button_region).raises
    THEN [res |-> FALSE, why |-> "ocr_error"]         \* except Exception
    ELSE IF \E k \in 1..Len(kws) :
              contains(lower(ocr_of(shot, button_region).text), lower(kws[k]))
    THEN [res |-> TRUE, why |-> "match"]
    ELSE [res |-> FALSE, why |-> "nomatch"]

\* Faulty variant of click_button: the far corner instead of the centre.
click_button_corner(x, y, w, h) == <<x + w, y + h>>

\* Faulty variant of click_button: the width is not halved.
click_button_right_edge(x, y, w, h) == <<x + w, y + h \div 2>>

\* lines 128-132: the point handed to pyautogui.click
click_button(x, y, w, h) == <<x + w \div 2, y + h \div 2>>

\* --------------------------------------------------------------- the object
\* __init__ (lines 33-35)
Init ==
    /\ running = FALSE
    /\ pc = "idle"
    /\ outcome = "None"
    /\ run = 0
    /\ use_ocr = TRUE
    /\ keywords = DefaultKeywords
    /\ ocr_available \in BOOLEAN
    /\ screen_width \in ScreenWidths
    /\ screenshot = Blank
    /\ buttons = <<>>
    /\ idx = 0
    /\ tick = 0
    /\ sleeps = 0
    /\ vlog = <<>>
    /\ clicks = <<>>
    /\ firstHit = 0
    /\ cancelTick = 0
    /\ raised = <<>>
    /\ stopAt = <<"none", 0>>
    /\ intAt = "none"

env == <<ocr_available, screen_width>>
args == <<use_ocr, keywords>>
locals == <<screenshot, buttons, idx>>
hist == <<tick, sleeps, vlog, clicks, firstHit, cancelTick, raised>>
reqs == <<stopAt, intAt>>

\* Faulty variant of start_monitoring: the flag is not set on entry.
start_monitoring_keeps_flag(kw, ocr) ==
    /\ pc \in {"idle", "done"}
    /\ run < MaxRuns
    /\ run' = run + 1
    /\ keywords' = IF kw.given THEN kw.value ELSE DefaultKeywords
    /\ use_ocr' = ocr
    /\ running' = running
    /\ pc' = "while"
    /\ outcome' = "None"
    /\ screenshot' = Blank
    /\ buttons' = <<>>
    /\ idx' = 0
    /\ tick' = 0
    /\ sleeps' = 0
    /\ vlog' = <<>>
    /\ clicks' = <<>>
    /\ firstHit' = 0
    /\ cancelTick' = 0
    /\ raised' = <<>>
    /\ stopAt' = IF stopAt[1] \in {"idle", "done"} THEN stopAt ELSE <<"none", 0>>
    /\ intAt' = "none"
    /\ UNCHANGED env

\* lines 151-157: entry of start_monitoring, up to the try block
start_monitoring(kw, ocr) ==
    /\ pc \in {"idle", "done"}
    /\ run < MaxRuns
    /\ run' = run + 1
    /\ keywords' = IF kw.given THEN kw.value ELSE DefaultKeywords
    /\ use_ocr' = ocr
    /\ running' = TRUE
    /\ pc' = "while"
    /\ outcome' = "None"
    /\ screenshot' = Blank
    /\ buttons' = <<>>
    /\ idx' = 0
    /\ tick' = 0
    /\ sleeps' = 0
    /\ vlog' = <<>>
    /\ clicks' = <<>>
    /\ firstHit' = 0
    /\ cancelTick' = 0
    /\ raised' = <<>>
    /\ stopAt' = IF stopAt[1] \in {"idle", "done"} THEN stopAt ELSE <<"none", 0>>
    /\ intAt' = "none"
    /\ UNCHANGED env

\* Faulty variant of WhileTest: `while True`.
WhileTrue ==
    /\ pc = "while"
    /\ pc' = "capture"
    /\ UNCHANGED <<reqs, running, outcome, run, args, env, locals, hist>>

\* line 160: `while self.running:`; a false flag leaves the loop and the
\* function returns None
WhileTest ==
    /\ pc = "while"
    /\ IF running
       THEN pc' = "capture" /\ outcome' = outcome
       ELSE pc' = "done" /\ outcome' = "Stopped"
    /\ UNCHANGED <<reqs, running, run, args, env, locals, hist>>

\* line 162: take_screenshot returns a new frame
take_screenshot ==
    /\ pc = "capture"
    /\ tick < MaxTicks
    /\ \E f \in Frames : screenshot' = f
    /\ tick' = tick + 1
    /\ vlog' = <<>>
    /\ pc' = "detect"
    /\ UNCHANGED <<reqs, running, outcome, run, args, env, buttons, idx, sleeps,
                   clicks, firstHit, cancelTick, raised>>

\* lines 165-167: detection, then `if buttons:`; an error raised inside
\* detect_blue_button goes to the handler of lines 192-194
Detect ==
    /\ pc = "detect"
    /\ IF division_fault(screenshot)
       THEN /\ raised' = Append(raised, [tick |-> tick, nclicks |-> Len(clicks)])
            /\ pc' = "done"
            /\ outcome' = "Failed"
            /\ UNCHANGED <<buttons, idx, firstHit>>
       ELSE /\ buttons' = detect_blue_button(screenshot)
            /\ idx' = 1
            /\ pc' = IF buttons' # <<>> THEN "for" ELSE "sleep"
            /\ firstHit' = IF buttons' # <<>> /\ firstHit = 0 THEN tick
                           ELSE firstHit
            /\ UNCHANGED <<outcome, raised>>
    /\ UNCHANGED <<reqs, running, run, args, env, screenshot, tick, sleeps,
                   vlog, clicks, cancelTick>>

\* Faulty variant of ForNext: the for loop is left as soon as the flag is
\* found false.
ForNextPreemptive ==
    /\ pc = "for"
    /\ pc' = IF ~running \/ idx > Len(buttons) THEN "sleep"
             ELSE IF use_ocr THEN "verify" ELSE "click"
    /\ UNCHANGED <<reqs, running, outcome, run, args, env, locals, hist>>

\* Faulty variant of ForNext: the verifier runs whatever use_ocr says.
ForNextAlwaysVerify ==
    /\ pc = "for"
    /\ pc' = IF idx > Len(buttons) THEN "sleep" ELSE "verify"
    /\ UNCHANGED <<reqs, running, outcome, run, args, env, locals, hist>>

\* lines 170-174 and 180: the next candidate of the for loop, if any, goes
\* to the verifier (use_ocr) or straight to the click
ForNext ==
    /\ pc = "for"
    /\ pc' = IF idx > Len(buttons) THEN "sleep"
             ELSE IF use_ocr THEN "verify" ELSE "click"
    /\ UNCHANGED <<reqs, running, outcome, run, args, env, locals, hist>>

\* Faulty variant of Verify: the test of line 175 is negated.
VerifyNegated ==
    /\ pc = "verify"
    /\ LET v == check_for_text_near_button(screenshot, buttons[idx], keywords)
       IN  /\ vlog' = Append(vlog,
                  [idx |-> idx, res |-> v.res, why |-> v.why,
                   crop |-> IF ocr_available
                            THEN crop_region(screenshot.shape, buttons[idx])
                            ELSE <<>>])
           /\ IF ~v.res
              THEN pc' = "click" /\ idx' = idx
              ELSE pc' = "for" /\ idx' = idx + 1
    /\ UNCHANGED <<reqs, running, outcome, run, args, env, screenshot, buttons,
                   tick, sleeps, clicks, firstHit, cancelTick, raised>>

\* line 175: the verifier's verdict on the current candidate
Verify ==
    /\ pc = "verify"
    /\ LET v == check_for_text_near_button(screenshot, buttons[idx], keywords)
       IN  /\ vlog' = Append(vlog,
                  [idx |-> idx, res |-> v.res, why |-> v.why,
                   crop |-> IF ocr_available
                            THEN crop_region(screenshot.shape, buttons[idx])
                            ELSE <<>>])
           /\ IF v.res
              THEN pc' = "click" /\ idx' = idx
              ELSE pc' = "for" /\ idx' = idx + 1
    /\ UNCHANGED <<reqs, running, outcome, run, args, env, screenshot, buttons,
                   tick, sleeps, clicks, firstHit, cancelTick, raised>>

\* Faulty variant of Click: the `return True` after click_button is missing,
\* so the for loop goes on with the next candidate.
ClickNoReturn ==
    /\ pc = "click"
    /\ LET b == buttons[idx]
       IN  clicks' = Append(clicks,
                [tick |-> tick, idx |-> idx, button |-> b,
                 at |-> click_button(b[1], b[2], b[3], b[4]),
                 nver |-> Len(vlog)])
    /\ pc' = "for"
    /\ idx' = idx + 1
    /\ UNCHANGED <<reqs, running, outcome, run, args, env, screenshot, buttons,
                   tick, sleeps, vlog, firstHit, cancelTick, raised>>

\* lines 176 and 182: click_button on the current candidate; the statement
\* that follows it is `return True`
Click ==
    /\ pc = "click"
    /\ LET b == buttons[idx]
       IN  clicks' = Append(clicks,
                [tick |-> tick, idx |-> idx, button |-> b,
                 at |-> click_button(b[1], b[2], b[3], b[4]),
                 nver |-> Len(vlog)])
    /\ pc' = "return"
    /\ UNCHANGED <<reqs, running, outcome, run, args, env, locals, tick, sleeps,
                   vlog, firstHit, cancelTick, raised>>

\* lines 179 and 184: return True
ReturnTrue ==
    /\ pc = "return"
    /\ pc' = "done"
    /\ outcome' = "Succeeded"
    /\ UNCHANGED <<reqs, running, run, args, env, locals, hist>>

\* Faulty variant of Sleep: the wait is skipped (the loop spins).
SleepSkipped ==
    /\ pc = "sleep"
    /\ pc' = "while"
    /\ UNCHANGED <<reqs, running, outcome, run, args, env, locals, hist>>

\* line 187: time.sleep(self.check_interval) runs to its end
Sleep ==
    /\ pc = "sleep"
    /\ sleeps' = sleeps + 1
    /\ pc' = "while"
    /\ UNCHANGED <<reqs, running, outcome, run, args, env, locals, tick, vlog,
                   clicks, firstHit, cancelTick, raised>>

\* Faulty variant of stop: the flag is flipped instead of cleared.
stop_toggle ==
    /\ running' = ~running
    /\ cancelTick' = IF pc = "sleep" /\ cancelTick = 0 THEN tick ELSE cancelTick
    /\ stopAt' = IF pc \in {"idle", "done"} THEN <<pc, 0>>
                 ELSE IF stopAt[1] \in InTry THEN stopAt
                 ELSE <<pc, tick>>
    /\ UNCHANGED <<intAt, pc, outcome, run, args, env, locals, tick, sleeps,
                   vlog, clicks, firstHit, raised>>

\* lines 196-199: stop(), called from outside at any moment
stop ==
    /\ running' = FALSE
    /\ cancelTick' = IF pc = "sleep" /\ cancelTick = 0 THEN tick ELSE cancelTick
    /\ stopAt' = IF pc \in {"idle", "done"} THEN <<pc, 0>>
                 ELSE IF stopAt[1] \in InTry THEN stopAt
                 ELSE <<pc, tick>>
    /\ UNCHANGED <<intAt, pc, outcome, run, args, env, locals, tick, sleeps, vlog,
                   clicks, firstHit, raised>>

\* Faulty variant of KeyboardInterrupt: the signal only clears the flag and
\* the thread goes on where it was.
KeyboardInterruptDeferred ==
    /\ pc \in InTry
    /\ running' = FALSE
    /\ cancelTick' = IF pc = "sleep" /\ cancelTick = 0 THEN tick ELSE cancelTick
    /\ intAt' = pc
    /\ UNCHANGED <<stopAt, pc, outcome, run, args, env, locals, tick, sleeps,
                   vlog, clicks, firstHit, raised>>

\* lines 189-191: Ctrl+C anywhere inside the try block; KeyboardInterrupt is
\* no Exception, so the verifier's handlers let it through
KeyboardInterrupt ==
    /\ pc \in InTry
    /\ running' = FALSE
    /\ pc' = "done"
    /\ outcome' = "Interrupted"
    /\ cancelTick' = IF pc = "sleep" /\ cancelTick = 0 THEN tick ELSE cancelTick
    /\ intAt' = pc
    /\ UNCHANGED <<stopAt, run, args, env, locals, tick, sleeps, vlog, clicks,
                   firstHit, raised>>

\* Faulty variant of RaiseError: the handler swallows the error and the
\* loop retries after the sleep.
RaiseErrorRetry ==
    /\ pc \in {"capture", "detect", "click"}
    /\ raised' = Append(raised, [tick |-> tick, nclicks |-> Len(clicks)])
    /\ pc' = "sleep"
    /\ UNCHANGED <<reqs, running, outcome, run, args, env, locals, tick, sleeps,
                   vlog, clicks, firstHit, cancelTick>>

\* lines 192-194: an Exception raised by the frame source, the detector or
\* the pointer is logged and re-raised; self.running is left as it is
RaiseError ==
    /\ pc \in {"capture", "detect", "click"}
    /\ raised' = Append(raised, [tick |-> tick, nclicks |-> Len(clicks)])
    /\ pc' = "done"
    /\ outcome' = "Failed"
    /\ UNCHANGED <<reqs, running, run, args, env, locals, tick, sleeps, vlog,
                   clicks, firstHit, cancelTick>>

Next ==
    \/ \E kw \in KeywordArgs, ocr \in BOOLEAN : start_monitoring(kw, ocr)
    \/ WhileTest
    \/ take_screenshot
    \/ Detect
    \/ ForNext
    \/ Verify
    \/ Click
    \/ ReturnTrue
    \/ Sleep
    \/ stop
    \/ KeyboardInterrupt
    \/ RaiseError

Spec == Init /\ [][Next]_vars

\* The thread of start_monitoring keeps running: a sleep ends and the loop
\* test that follows it is evaluated.
FairSpec == Spec /\ WF_vars(Sleep) /\ WF_vars(WhileTest)

\* ----------------------------------------------- one candidate, many shapes
\* The first tick of a run right after the capture, the frame holding one
\* contour drawn from a grid of areas, positions and sizes that fit the
\* buffer (the enclosed area of a contour is at most (w-1)(h-1)).
ClickContours ==
    { Contour(a, x, y, w, h, FALSE, TextJoin) :
        a \in {1000, 1001, 4851, 99999, 100000},
        x \in {0, 150, 560}, y \in {0, 75, 550},
        w \in {99, 100, 101, 240, 700}, h \in {24, 50, 66, 67, 200} }

FitsBuffer(c) ==
    /\ c.x + c.w <= BufShape[2]
    /\ c.y + c.h <= BufShape[1]
    /\ c.area <= (c.w - 1) * (c.h - 1)

InitClick ==
    /\ running = TRUE
    /\ pc = "detect"
    /\ outcome = "None"
    /\ run = 1
    /\ use_ocr \in BOOLEAN
    /\ keywords = DefaultKeywords
    /\ ocr_available = TRUE
    /\ screen_width \in ScreenWidths
    /\ \E c \in ClickContours : FitsBuffer(c) /\ screenshot = Frame(<<c>>)
    /\ buttons = <<>>
    /\ idx = 0
    /\ tick = 1
    /\ sleeps = 0
    /\ vlog = <<>>
    /\ clicks = <<>>
    /\ firstHit = 0
    /\ cancelTick = 0
    /\ raised = <<>>
    /\ stopAt = <<"none", 0>>
    /\ intAt = "none"

NextClick ==
    \/ Detect
    \/ ForNext
    \/ Verify
    \/ Click
    \/ ReturnTrue

SpecClick == InitClick /\ [][NextClick]_vars

\* ------------------------------------------------- the detector on its own
\* The same position of the first tick, the frame holding one contour for
\* which cv2 reports any of a grid of areas and bounding boxes, degenerate
\* boxes (zero width or height) and areas on the bounds included; at three
\* vertical positions (top, middle and bottom of the frame).
DetectContours ==
    { Contour(a, 100, y, w, h, FALSE, TextJoin) :
        a \in {999, 1000, 1001, 50000, 99999, 100000, 100001},
        y \in {0, 300, 570},
        w \in {0, 30, 45, 46, 299, 300, 301}, h \in {0, 30} }

InitDetect ==
    /\ running = TRUE
    /\ pc = "detect"
    /\ outcome = "None"
    /\ run = 1
    /\ use_ocr \in BOOLEAN
    /\ keywords = DefaultKeywords
    /\ ocr_available = TRUE
    /\ screen_width = BufShape[2]
    /\ \E c \in DetectContours : screenshot = Frame(<<c>>)
    /\ buttons = <<>>
    /\ idx = 0
    /\ tick = 1
    /\ sleeps = 0
    /\ vlog = <<>>
    /\ clicks = <<>>
    /\ firstHit = 0
    /\ cancelTick = 0
    /\ raised = <<>>
    /\ stopAt = <<"none", 0>>
    /\ intAt = "none"

NextDetect ==
    \/ Detect
    \/ ForNext

SpecDetect == InitDetect /\ [][NextDetect]_vars

\* ------------------------------------------------- the verifier on its own
\* A tick of a run with use_ocr about to verify its only candidate, for a
\* range of recognised texts and keyword lists, with the OCR working,
\* raising or missing.
VerifyTexts ==
    { TextJoin, TextLeave, <<>>,
      <<"Q","U","E","U","E">>,
      <<"j","o"," ","i","n">>,
      <<"q","u","e","u">> }

VerifyKeywords ==
    { DefaultKeywords, MainKeywords, <<>>,
      << <<"j","o","i","n"," ","q","u","e","u","e">>, <<"q","u","e","u","e">> >>,
      << <<"Q","u","e","u","e">> >>,
      << <<"n","o","w">>, <<"L","E","A","V","E">> >>,
      << <<>> >> }

InitVerify ==
    /\ running = TRUE
    /\ pc = "verify"
    /\ outcome = "None"
    /\ run = 1
    /\ use_ocr = TRUE
    /\ keywords \in VerifyKeywords
    /\ ocr_available \in BOOLEAN
    /\ screen_width = BufShape[2]
    /\ \E t \in VerifyTexts, r \in BOOLEAN :
          screenshot = Frame(<<Contour(4851, 150, 75, 100, 50, r, t)>>)
    /\ buttons = <<Rect(CJoin)>>
    /\ idx = 1
    /\ tick = 1
    /\ sleeps = 0
    /\ vlog = <<>>
    /\ clicks = <<>>
    /\ firstHit = 1
    /\ cancelTick = 0
    /\ raised = <<>>
    /\ stopAt = <<"none", 0>>
    /\ intAt = "none"

NextVerify ==
    \/ Verify
    \/ ForNext
    \/ Click
    \/ ReturnTrue

SpecVerify == InitVerify /\ [][NextVerify]_vars

\* ------------------------------------------------------------- vocabulary
\* the states of the loop named by the design: Idle, Running, Succeeded,
\* Cancelled, Failed
Succeeded == pc = "done" /\ outcome = "Succeeded"
Cancelled == pc = "done" /\ outcome \in {"Interrupted", "Stopped"}
Failed    == pc = "done" /\ outcome = "Failed"

TypeOK ==
    /\ running \in BOOLEAN
    /\ pc \in InTry \cup {"idle", "done"}
    /\ outcome \in {"None", "Succeeded", "Interrupted", "Stopped", "Failed"}
    /\ run \in 0..MaxRuns
    /\ tick \in 0..MaxTicks

\* ------------------------------------------------------------------ claims
Last(s) == s[Len(s)]

\* C1: in a run of start_monitoring the pointer is clicked at most once;
\* once it has been clicked the thread is at `return True` or has returned,
\* no further frame has been captured and no further candidate verified.
C1_AtMostOneClick ==
    /\ Len(clicks) <= 1
    /\ clicks # <<>> =>
          /\ pc \in {"return", "done"}
          /\ tick = clicks[1].tick
          /\ Len(vlog) = clicks[1].nver

\* a click on the first of two candidates, after which the run has ended
C1_Witness ==
    /\ Succeeded
    /\ Len(clicks) = 1
    /\ clicks[1].idx = 1
    /\ Len(buttons) = 2

\* C2: with use_ocr false the verifier never runs; ticks without candidates
\* produce no click; the first tick with candidates is the last tick of the
\* run, its first candidate is the only one considered and clicked, and
\* the run then ends Succeeded with exactly one click unless Ctrl+C or an
\* error of the pointer ends it first.
C2_NoOcrFirstCandidate ==
    (run > 0 /\ ~use_ocr) =>
        /\ vlog = <<>>
        /\ firstHit = 0 =>
              /\ clicks = <<>>
              /\ pc \notin {"for", "click", "return"}
              /\ outcome # "Succeeded"
        /\ firstHit # 0 =>
              /\ tick = firstHit
              /\ idx = 1
              /\ buttons # <<>>
              /\ pc \in {"for", "click", "return", "done"}
              /\ pc = "done" => outcome \in {"Succeeded", "Interrupted", "Failed"}
        /\ pc = "return" => Len(clicks) = 1
        /\ Succeeded => Len(clicks) = 1
        /\ clicks # <<>> =>
              /\ Len(clicks) = 1
              /\ clicks[1].tick = firstHit
              /\ clicks[1].idx = 1
              /\ clicks[1].button = buttons[1]

\* an empty tick, then a tick with two candidates: one click, on the first
C2_Witness ==
    /\ ~use_ocr
    /\ Succeeded
    /\ tick = 2
    /\ firstHit = 2
    /\ Len(buttons) = 2
    /\ Len(clicks) = 1

\* the verifier said no to every candidate of the current tick
AllRejected ==
    /\ Len(vlog) = Len(buttons)
    /\ \A i \in 1..Len(vlog) : ~vlog[i].res

C3_Inv ==
    (run > 0 /\ use_ocr) =>
        /\ pc = "sleep" =>
              /\ AllRejected
              /\ clicks = <<>>
              /\ outcome = "None"
              /\ sleeps = tick - 1
        /\ (pc = "for" /\ AllRejected) => idx > Len(buttons)
        /\ pc \in {"capture"} => sleeps = tick
        /\ pc \in {"detect", "for", "verify", "click", "return"} =>
              sleeps = tick - 1

C3_Step ==
    (use_ocr /\ pc' # pc /\ outcome' # "Interrupted") =>
        /\ (pc = "for" /\ AllRejected) => pc' = "sleep"
        /\ pc = "sleep" => (pc' = "while" /\ sleeps' = sleeps + 1)
        /\ (pc = "while" /\ running) => pc' = "capture"
        /\ (pc = "capture" /\ outcome' # "Failed") =>
              (pc' = "detect" /\ tick' = tick + 1)

\* C3: with use_ocr true, a tick in which the verifier rejects every
\* candidate (or there is none) dispatches no click and leaves the run
\* unfinished; the loop sleeps exactly once and, the flag still being set,
\* starts the next tick with a new capture.
C3_RejectedTickSleepsThenNextTick == []C3_Inv /\ [][C3_Step]_vars

\* second tick under way after a first tick whose two candidates were
\* both rejected by a working OCR
C3_Witness ==
    /\ use_ocr
    /\ ocr_available
    /\ pc = "detect"
    /\ tick = 2
    /\ sleeps = 1
    /\ Len(buttons) = 2
    /\ clicks = <<>>

\* C4: with use_ocr true the candidates of a tick are verified in iteration
\* order on the frame of that tick, every verdict before the last is a
\* rejection, and a click is on the candidate of the last verdict, which is
\* an acceptance: no rejected candidate is clicked and nothing after the
\* accepted one is verified or clicked.
C4_FirstVerifiedIsClicked ==
    (run > 0 /\ use_ocr) =>
        /\ Len(vlog) <= Len(buttons)
        /\ \A i \in 1..Len(vlog) :
              /\ vlog[i].idx = i
              /\ vlog[i].res =
                   check_for_text_near_button(screenshot, buttons[i], keywords).res
              /\ i < Len(vlog) => ~vlog[i].res
        /\ pc = "click" => (vlog # <<>> /\ idx = Len(vlog) /\ Last(vlog).res)
        /\ \A k \in 1..Len(clicks) :
              /\ clicks[k].tick = tick
              /\ clicks[k].idx = Len(vlog)
              /\ clicks[k].nver = Len(vlog)
              /\ vlog[clicks[k].idx].res
              /\ clicks[k].button = buttons[clicks[k].idx]

\* three candidates: the first rejected, the second accepted and clicked,
\* the third never verified
C4_Witness ==
    /\ use_ocr
    /\ Succeeded
    /\ Len(buttons) = 3
    /\ Len(vlog) = 2
    /\ ~vlog[1].res
    /\ clicks[1].idx = 2

\* C5: once cancellation has been requested during the sleep between two
\* ticks (stop() or Ctrl+C), the flag is false, no frame is captured and no
\* click dispatched any more, the thread can only finish the sleep, test
\* the flag and leave, and the run does end Cancelled.
C5_Inv ==
    cancelTick # 0 =>
        /\ ~running
        /\ tick = cancelTick
        /\ clicks = <<>>
        /\ pc \in {"sleep", "while", "done"}
        /\ pc = "done" => Cancelled

C5_CancelDuringSleep == []C5_Inv /\ ((cancelTick # 0) ~> Cancelled)

\* stop() during the sleep after the second tick; the loop test then ended
\* the run
C5_Witness ==
    /\ cancelTick = 2
    /\ pc = "done"
    /\ outcome = "Stopped"
    /\ sleeps = 2

\* the OCR of candidate i of the current tick is missing or raises
OcrFails(i) == ~ocr_available \/ ocr_of(screenshot, buttons[i]).raises

C6_Inv ==
    (run > 0 /\ use_ocr) =>
        /\ \A i \in 1..Len(vlog) : OcrFails(i) =>
              /\ ~vlog[i].res
              /\ vlog[i].why \in {"no_ocr", "ocr_error"}
              /\ \A k \in 1..Len(clicks) : clicks[k].idx # i
        /\ outcome = "Failed" => raised # <<>>

C6_Step ==
    (use_ocr /\ pc = "verify" /\ OcrFails(idx) /\ pc' # pc
       /\ outcome' # "Interrupted") =>
        /\ pc' = "for"
        /\ idx' = idx + 1
        /\ outcome' = "None"
        /\ clicks' = clicks
        /\ raised' = raised

\* C6: a candidate whose OCR raises, or is verified without pytesseract, is
\* rejected and never clicked; the run does not fail because of it, and the
\* loop goes on with the next candidate of the tick.
C6_OcrFailureIsNoMatch == []C6_Inv /\ [][C6_Step]_vars

\* the OCR raised on the first candidate, the second was verified and
\* rejected, and the loop is sleeping before the next tick
C6_Witness ==
    /\ use_ocr
    /\ ocr_available
    /\ pc = "sleep"
    /\ Len(vlog) = 2
    /\ vlog[1].why = "ocr_error"
    /\ vlog[2].why = "nomatch"
    /\ outcome = "None"

\* C7: an error raised by the frame source, the detector or the pointer
\* ends the run Failed at once: it is raised once, nothing is retried, and
\* no frame is captured and no click dispatched after it; a run fails in no
\* other way.
C7_TickErrorIsFatal ==
    /\ raised # <<>> =>
          /\ Len(raised) = 1
          /\ Failed
          /\ tick = raised[1].tick
          /\ Len(clicks) = raised[1].nclicks
    /\ outcome = "Failed" => raised # <<>>

\* the frame source failed at the second capture
C7_Witness ==
    /\ Failed
    /\ Len(raised) = 1
    /\ raised[1].tick = 1
    /\ sleeps = 1
    /\ clicks = <<>>

\* C8: the flag is false in every state reached after the loop has ended by
\* cancellation or by an error.
C8_FlagFalseAfterEnd == (Cancelled \/ Failed) => ~running

\* the centre of a candidate (x, y, w, h), truncated
CentreOf(b, p) ==
    /\ 2 * (p[1] - b[1]) \in {b[3], b[3] - 1}
    /\ 2 * (p[2] - b[2]) \in {b[4], b[4] - 1}

\* p is the centre of b scaled by screen_width / buffer width on both axes
\* and truncated
ScaledCentreOf(b, p) ==
    LET W == screenshot.shape[2]
        c == <<b[1] + b[3] \div 2, b[2] + b[4] \div 2>>
    IN  p = <<(c[1] * screen_width) \div W, (c[2] * screen_width) \div W>>

\* C9: when the buffer width differs from the screen width, the point
\* clicked is the candidate's centre scaled by screen width / buffer width
\* and truncated.
C9_ClickIsScaled ==
    \A k \in 1..Len(clicks) :
        screen_width # screenshot.shape[2] =>
            ScaledCentreOf(clicks[k].button, clicks[k].at)

\* C10: when the buffer width equals the screen width, the point clicked is
\* the candidate's centre (x + w div 2, y + h div 2), unchanged.
C10_ClickIsCentre ==
    \A k \in 1..Len(clicks) :
        screen_width = screenshot.shape[2] =>
            CentreOf(clicks[k].button, clicks[k].at)

\* an odd-width candidate clicked on a display whose width is the buffer's
C10_Witness ==
    /\ screen_width = screenshot.shape[2]
    /\ clicks # <<>>
    /\ clicks[1].button = <<150, 75, 101, 50>>
    /\ clicks[1].at = <<200, 100>>

\* the object and the locals of the running call, without the history
ProgState == <<running, pc, outcome, run, args, env, locals>>

C11_Step ==
    stop =>
        /\ ~running'
        /\ UNCHANGED <<pc, outcome, run, args, env, locals, tick, sleeps,
                       vlog, clicks, raised>>
        /\ ~running => UNCHANGED ProgState

\* C11: a call of stop() leaves the flag false and changes nothing else; it
\* captures no frame and dispatches no click; called when the flag is
\* already false (a second call) it leaves the object as it is, in every
\* state of the loop.
C11_StopIdempotent == [][C11_Step]_vars

\* stop() was called while a candidate was being verified, and the thread
\* has not moved since: a further call finds the flag false
C11_Witness ==
    /\ stopAt[1] = "verify"
    /\ pc = "verify"
    /\ ~running
    /\ outcome = "None"

\* the contour of a one-contour frame
TheContour == screenshot.contours[1]

\* area strictly between 1000 and 100000 and w/h strictly between 1.5 and 10
StrictlyInside(c) ==
    /\ c.area \in 1001..99999
    /\ c.h # 0
    /\ 10 * c.w > 15 * c.h
    /\ c.w < 10 * c.h

\* C12: the detector emits a region only if the area of its contour lies
\* strictly between 1000 and 100000 and its aspect ratio w/h strictly
\* between 1.5 and 10; on a bound or outside, nothing is emitted, at any
\* vertical position.
C12_EmittedOnlyInsideBounds ==
    pc # "detect" =>
        /\ buttons \in {<<>>, <<Rect(TheContour)>>}
        /\ buttons # <<>> => StrictlyInside(TheContour)
        /\ ~StrictlyInside(TheContour) => (buttons = <<>> /\ pc = "sleep")

\* a contour at the bottom of the frame whose area is the upper bound and
\* whose aspect ratio is fine: not emitted
C12_Witness ==
    /\ pc = "sleep"
    /\ buttons = <<>>
    /\ TheContour.area = 100000
    /\ TheContour.y = 570
    /\ TheContour.w = 46
    /\ TheContour.h = 30

\* C13: every emitted region has strictly positive width and height; a
\* contour whose bounding box has height zero gets aspect ratio zero, the
\* detector does not raise on it, and it is not emitted.
C13_EmittedHasPositiveSize ==
    pc # "detect" =>
        /\ outcome # "Failed"
        /\ raised = <<>>
        /\ \A i \in 1..Len(buttons) : buttons[i][3] > 0 /\ buttons[i][4] > 0
        /\ TheContour.h = 0 => (buttons = <<>> /\ pc = "sleep")

\* a contour of height zero that passed the size filter: rejected
C13_Witness ==
    /\ pc = "sleep"
    /\ buttons = <<>>
    /\ TheContour.h = 0
    /\ TheContour.w = 46
    /\ TheContour.area = 50000
    /\ outcome = "None"

\* the region b lies wholly in the top fifth or in the bottom tenth of a
\* frame of the given shape
InExcludedBand(b, shape) ==
    \/ 5 * (b[2] + b[4]) <= shape[1]
    \/ 10 * b[2] >= 9 * shape[1]

\* C14: a region in the excluded vertical bands of the frame (top 20%,
\* bottom 10%) is never emitted by the detector.
C14_ExcludedBandsNotEmitted ==
    \A i \in 1..Len(buttons) : ~InExcludedBand(buttons[i], screenshot.shape)

\* s with every upper-case letter replaced by its lower-case letter
Lowered(s) ==
    [i \in 1..Len(s) |->
        IF \E j \in 1..26 : UpperCase[j] = s[i]
        THEN LowerCase[CHOOSE j \in 1..26 : UpperCase[j] = s[i]]
        ELSE s[i]]

\* k is a contiguous piece of t (the empty string is a piece of any text)
IsSubstring(k, t) ==
    \/ k = <<>>
    \/ \E a \in 1..Len(t) : \E b \in a..Len(t) : SubSeq(t, a, b) = k

\* C15: when the OCR recognised a text, the verifier returns true exactly
\* when some keyword, lowercased, is a substring of the lowercased text.
C15_VerdictIsKeywordContainment ==
    \A i \in 1..Len(vlog) :
        vlog[i].why \in {"match", "nomatch"} =>
            /\ ocr_available
            /\ ~TheContour.raises
            /\ vlog[i].res <=>
                 \E k \in 1..Len(keywords) :
                    IsSubstring(Lowered(keywords[k]), Lowered(TheContour.text))

\* keywords ["join queue", "queue"] and the text "Join Queue Now": accepted
C15_Witness ==
    /\ keywords = << <<"j","o","i","n"," ","q","u","e","u","e">>,
                     <<"q","u","e","u","e">> >>
    /\ TheContour.text = TextJoin
    /\ vlog # <<>>
    /\ vlog[1].res
    /\ vlog[1].why = "match"

\* the candidates of the current tick have all been dealt with: one was
\* clicked, or every one was verified and rejected
TickFinished ==
    \/ clicks # <<>>
    \/ use_ocr /\ AllRejected

MidTick == {"detect", "for", "verify", "click", "return"}

C17_Inv ==
    stopAt[1] \in MidTick =>
        /\ ~running
        /\ tick = stopAt[2]
        /\ pc \notin {"idle", "capture"}
        /\ (pc = "done" /\ outcome = "Stopped") => sleeps = tick

C17_Step ==
    (stopAt[1] \in MidTick /\ pc' # pc /\ outcome' \notin {"Interrupted", "Failed"}) =>
        /\ pc = "detect" => pc' \in {"for", "sleep"}
        /\ (pc = "for" /\ idx <= Len(buttons)) =>
              pc' = IF use_ocr THEN "verify" ELSE "click"
        /\ (pc = "for" /\ idx > Len(buttons)) => pc' = "sleep"
        /\ pc = "verify" =>
              /\ Len(vlog') = Len(vlog) + 1
              /\ pc' = IF Last(vlog').res THEN "click" ELSE "for"
        /\ pc = "click" => (Len(clicks') = Len(clicks) + 1 /\ pc' = "return")
        /\ pc = "return" => (pc' = "done" /\ outcome' = "Succeeded")
        /\ pc = "sleep" => pc' = "while"
        /\ pc = "while" => (pc' = "done" /\ outcome' = "Stopped")

\* C17: a stop() made while a tick is in progress does not interrupt the
\* tick: detection, the verification of the remaining candidates and the
\* click on an accepted one go on as without it; it takes effect at the
\* loop test after the sleep, where the loop exits without another capture.
C17_StopIsCooperative == []C17_Inv /\ [][C17_Step]_vars

\* stop() right after the capture; both candidates were verified after it
\* and the second one clicked
C17_Witness ==
    /\ stopAt = <<"detect", 1>>
    /\ ~running
    /\ use_ocr
    /\ Succeeded
    /\ Len(vlog) = 2
    /\ clicks # <<>>
    /\ clicks[1].idx = 2

\* C18: for a candidate (x, y, w, h) inside a buffer of width W and height
\* H the region the verifier crops satisfies 0 <= x1 <= x, x + w <= x2 <= W,
\* 0 <= y1 <= y and y + h <= y2 <= H.
C18_CropClampedToBuffer ==
    \A i \in 1..Len(vlog) :
        LET b == buttons[vlog[i].idx]
            c == vlog[i].crop
            H == screenshot.shape[1]
            W == screenshot.shape[2]
        IN  (vlog[i].why # "no_ocr"
             /\ b[1] >= 0 /\ b[2] >= 0 /\ b[1] + b[3] <= W /\ b[2] + b[4] <= H) =>
                /\ Len(c) = 4
                /\ 0 <= c[1] /\ c[1] <= b[1]
                /\ b[1] + b[3] <= c[3] /\ c[3] <= W
                /\ 0 <= c[2] /\ c[2] <= b[2]
                /\ b[2] + b[4] <= c[4] /\ c[4] <= H

\* a candidate at the left edge and near the bottom edge: the crop is cut
\* at column 0 and at row 600
C18_Witness ==
    /\ vlog # <<>>
    /\ buttons[1] = <<0, 550, 100, 50>>
    /\ vlog[1].crop = <<0, 530, 120, 600>>

\* the stop() that counts for this run was made before start_monitoring
\* was called
StoppedBefore == stopAt[1] \in {"idle", "done"}

C19_Inv ==
    (StoppedBefore /\ pc \in InTry) =>
        /\ running
        /\ outcome = "None"

C19_Step ==
    /\ run' # run => (running' /\ pc' = "while" /\ tick' = 0)
    /\ (StoppedBefore /\ pc' # pc /\ outcome' \notin {"Interrupted", "Failed"}) =>
          /\ pc = "while" => pc' = "capture"
          /\ pc = "capture" => (pc' = "detect" /\ tick' = tick + 1)
          /\ pc = "detect" => pc' \in {"for", "sleep"}
          /\ pc = "click" => Len(clicks') = Len(clicks) + 1

\* C19: start_monitoring sets the flag on entry whatever it was, so a
\* stop() made before the call does not shorten the run: the loop test
\* passes and the first tick (capture, detection, a possible click) runs.
C19_StopBeforeStartHasNoEffect == []C19_Inv /\ [][C19_Step]_vars

\* stop() on the new object, then a run that clicked in its first tick
C19_Witness ==
    /\ stopAt = <<"idle", 0>>
    /\ run = 1
    /\ Succeeded
    /\ running
    /\ tick = 1
    /\ Len(clicks) = 1

\* C20: the point clicked lies inside the candidate rectangle:
\* x <= center_x < x + w and y <= center_y < y + h, for w > 0 and h > 0.
C20_ClickInsideCandidate ==
    \A k \in 1..Len(clicks) :
        LET b == clicks[k].button
            p == clicks[k].at
        IN  (b[3] > 0 /\ b[4] > 0) =>
                /\ b[1] <= p[1] /\ p[1] < b[1] + b[3]
                /\ b[2] <= p[2] /\ p[2] < b[2] + b[4]

\* a candidate of odd width 99 clicked at x + 49
C20_Witness ==
    /\ clicks # <<>>
    /\ clicks[1].button = <<560, 550, 99, 50>>
    /\ clicks[1].at = <<609, 575>>

====
